---------------------------- MODULE Spec2Model ----------------------------
(***************************************************************************)
(* Model of tls-sweep (src/main.go): main loads a TLD list (cache or       *)
(* IANA fetch), starts maxWorkers goroutines, enqueues one candidate       *)
(* domain per non-IDN TLD on the tasks channel, waits for the workers and  *)
(* exports the results channel to <base>.csv.                              *)
(*                                                                         *)
(* Go strings are modelled as sequences of one-character strings, so that  *)
(* ToLower, TrimSpace, Split, Join, HasPrefix and Sprintf are computed     *)
(* character by character.                                                 *)
(***************************************************************************)
EXTENDS Integers, Sequences, FiniteSets, Bags, TLC

(***************************************************************************)
(* Bounds of the model.                                                    *)
(***************************************************************************)
\* longest TLD sequence the environment (cache file, HTTP body) supplies
MaxTlds == 2
\* largest runtime.NumCPU() considered; maxWorkers = 2 * NumCPU
MaxCPU == 2

(***************************************************************************)
(* String helpers (package strings / fmt).                                 *)
(***************************************************************************)
EmptyStr == << >>

UpperChars == <<"A", "C", "N", "X">>
LowerChars == <<"a", "c", "n", "x">>

\* unicode.ToLower on one character
LowerChar(c) ==
    IF \E i \in 1..Len(UpperChars) : UpperChars[i] = c
    THEN LowerChars[CHOOSE i \in 1..Len(UpperChars) : UpperChars[i] = c]
    ELSE c

\* strings.ToLower
ToLower(s) == [i \in 1..Len(s) |-> LowerChar(s[i])]

\* unicode.IsSpace (Latin-1 subset used by strings.TrimSpace)
IsSpace(c) == c \in {" ", "\t", "\n", "\r"}

RECURSIVE TrimLeft(_)
TrimLeft(s) ==
    IF Len(s) > 0 /\ IsSpace(Head(s)) THEN TrimLeft(Tail(s)) ELSE s

RECURSIVE TrimRight(_)
TrimRight(s) ==
    IF Len(s) > 0 /\ IsSpace(s[Len(s)])
    THEN TrimRight(SubSeq(s, 1, Len(s) - 1))
    ELSE s

\* strings.TrimSpace
TrimSpace(s) == TrimRight(TrimLeft(s))

\* strings.HasPrefix
HasPrefix(s, prefix) ==
    /\ Len(s) >= Len(prefix)
    /\ SubSeq(s, 1, Len(prefix)) = prefix

\* strings.Split(s, sep) for a one-character sep: always at least one field
RECURSIVE SplitFrom(_, _, _)
SplitFrom(s, sep, cur) ==
    IF Len(s) = 0 THEN <<cur>>
    ELSE IF Head(s) = sep
         THEN <<cur>> \o SplitFrom(Tail(s), sep, EmptyStr)
         ELSE SplitFrom(Tail(s), sep, Append(cur, Head(s)))

Split(s, sep) == SplitFrom(s, sep, EmptyStr)

\* strings.Join(elems, sep) for a one-character sep
RECURSIVE Join(_, _)
Join(elems, sep) ==
    IF Len(elems) = 0 THEN EmptyStr
    ELSE IF Len(elems) = 1 THEN elems[1]
    ELSE elems[1] \o <<sep>> \o Join(Tail(elems), sep)

(***************************************************************************)
(* String literals of the program.                                         *)
(***************************************************************************)
\* "xn--" (main.go:63)
XnPrefix == <<"x", "n", "-", "-">>
\* "\t" (main.go:109)
cache_sep == "\t"
\* "--force-tld-refresh" (main.go:44)
ForceFlag == <<"-", "-", "f", "o", "r", "c", "e", "-", "t", "l", "d", "-",
               "r", "e", "f", "r", "e", "s", "h">>
\* "-" (main.go:179)
IpSentinel == <<"-">>
NXDOMAIN == <<"N", "X", "D", "O", "M", "A", "I", "N">>
TLS_ERROR == <<"T", "L", "S", " ", "E", "R", "R", "O", "R">>
NO_CERT == <<"N", "O", " ", "C", "E", "R", "T">>
OK == <<"O", "K">>
\* "(no subject)" (main.go:215)
NoSubject == <<"(", "n", "o", " ", "s", "u", "b", "j", "e", "c", "t", ")">>
\* the CSV header row (main.go:89)
CsvHeader ==
    << <<"D", "o", "m", "a", "i", "n">>, <<"I", "P">>,
       <<"S", "t", "a", "t", "u", "s">>,
       <<"S", "u", "b", "j", "e", "c", "t">>,
       <<"I", "s", "s", "u", "e", "r">>,
       <<"V", "a", "l", "i", "d", "T", "o">> >>

\* fmt.Sprintf("%s.%s", baseDomain, tld) (main.go:66)
SprintfDomain(base, tld) == base \o <<".">> \o tld

\* fmt.Sprintf("%s.csv", baseDomain) (main.go:78)
SprintfFileName(base) == base \o <<".", "c", "s", "v">>

\* decimal digits of n, zero-padded to at least width characters
Digits == <<"0", "1", "2", "3", "4", "5", "6", "7", "8", "9">>
RECURSIVE PadInt(_, _)
PadInt(n, width) ==
    IF n < 10 /\ width <= 1 THEN <<Digits[n + 1]>>
    ELSE Append(PadInt(n \div 10, width - 1), Digits[(n % 10) + 1])

\* time.Time.Format("2006-01-02") (main.go:204)
FormatDate(t) ==
    PadInt(t.year, 4) \o <<"-">> \o PadInt(t.month, 2) \o <<"-">>
        \o PadInt(t.day, 2)

(***************************************************************************)
(* Pure functions of the program.                                          *)
(***************************************************************************)
\* fetchTLDs, the parsing of the response body (main.go:157-165): the first
\* line is dropped, every other line is trimmed and lower-cased, and empty
\* lines are skipped
parseTLDs(body) ==
    LET lines == Split(body, "\n")
        norm == [i \in 1..(Len(lines) - 1) |-> ToLower(TrimSpace(lines[i + 1]))]
    IN  SelectSeq(norm, LAMBDA tld : Len(tld) > 0)

\* faulty variant: the first DNS name is preferred to the common name
certSubject_sanFirst(cert) ==
    IF Len(cert.DNSNames) > 0 THEN cert.DNSNames[1]
    ELSE IF cert.CommonName # EmptyStr THEN cert.CommonName
    ELSE NoSubject

\* certSubject (main.go:208-216)
certSubject(cert) ==
    IF cert.CommonName # EmptyStr THEN cert.CommonName
    ELSE IF Len(cert.DNSNames) > 0 THEN cert.DNSNames[1]
    ELSE NoSubject

\* the zero value of ScanResult (main.go:27-34)
ZeroResult ==
    [Domain |-> EmptyStr, IP |-> EmptyStr, Status |-> EmptyStr,
     Subject |-> EmptyStr, Issuer |-> EmptyStr, ValidTo |-> EmptyStr]

\* the composite literals scanDomain returns (main.go:179, 188, 194, 198-205);
\* fields a literal does not name keep their zero value
nxdomainResult(domain) ==
    [ZeroResult EXCEPT
        !.Domain = domain, !.IP = IpSentinel, !.Status = NXDOMAIN]

\* faulty variant: the TLS ERROR literal with the sentinel as its address
tlsErrorResult_noIP(domain, ip) ==
    [ZeroResult EXCEPT
        !.Domain = domain, !.IP = IpSentinel, !.Status = TLS_ERROR]

tlsErrorResult(domain, ip) ==
    [ZeroResult EXCEPT !.Domain = domain, !.IP = ip, !.Status = TLS_ERROR]

\* faulty variant: the NO CERT literal with a placeholder subject
noCertResult_subject(domain, ip) ==
    [ZeroResult EXCEPT
        !.Domain = domain, !.IP = ip, !.Status = NO_CERT, !.Subject = NoSubject]

noCertResult(domain, ip) ==
    [ZeroResult EXCEPT !.Domain = domain, !.IP = ip, !.Status = NO_CERT]

okResult(domain, ip, cert) ==
    [Domain |-> domain, IP |-> ip, Status |-> OK,
     Subject |-> certSubject(cert),
     Issuer |-> cert.IssuerCommonName,
     ValidTo |-> FormatDate(cert.NotAfter)]

\* the test of main.go:178 on what net.LookupHost returned
lookupFailed(o) == o.lookupErr \/ Len(o.ips) = 0

\* scanDomain as a whole (main.go:176-206), for the outcome o the network
\* gives the probe of domain
scanDomain(domain, o) ==
    IF lookupFailed(o) THEN nxdomainResult(domain)
    ELSE IF o.dialErr THEN tlsErrorResult(domain, o.ips[1])
    ELSE IF Len(o.certs) = 0 THEN noCertResult(domain, o.ips[1])
    ELSE okResult(domain, o.ips[1], o.certs[1])

\* the row exportToCsv writes for a result (main.go:99)
csvRow(res) ==
    <<res.Domain, res.IP, res.Status, res.Subject, res.Issuer, res.ValidTo>>

(***************************************************************************)
(* The environment: command lines, cache files, HTTP responses, network    *)
(* outcomes.                                                               *)
(***************************************************************************)
\* all sequences over S of length lo..hi
SeqsOf(S, lo, hi) == UNION {[1..n -> S] : n \in lo..hi}

ProgName == <<"t">>
BaseName == <<"b">>

\* os.Args: no argument, a base domain, a base domain and the refresh flag
ArgLists ==
    { <<ProgName>>, <<ProgName, BaseName>>, <<ProgName, BaseName, ForceFlag>> }

\* fields a cache file may hold between separators: a normalised TLD, an
\* IDN TLD, a TLD in upper case with leading whitespace
CacheFields == { <<"c">>, <<"x", "n", "-", "-", "a">>, <<" ", "C">> }

\* contents of .cache/tlds.cache: an empty file, or fields joined by tabs
CacheContents ==
    {Join(fs, cache_sep) : fs \in SeqsOf(CacheFields, 0, MaxTlds)}

\* lines of the IANA list after its header line (the list is upper case)
BodyLines == { <<"C">>, <<"X", "N", "-", "-", "A">>, <<" ", "c", "\r">> }

HeaderLine == <<"#">>

\* response bodies: header, lines and the final newline; or nothing at all
Bodies ==
    {EmptyStr} \cup
    {Join(<<HeaderLine>> \o ls \o <<EmptyStr>>, "\n") :
        ls \in SeqsOf(BodyLines, 0, MaxTlds)}

\* what http.Get gives: an error, or a response with a body
Responses ==
    {[err |-> TRUE, body |-> EmptyStr]} \cup
    {[err |-> FALSE, body |-> b] : b \in Bodies}

Date1 == [year |-> 2031, month |-> 7, day |-> 9]

\* leaf certificates a server may present
Certs ==
    { [CommonName |-> <<"s">>, DNSNames |-> << <<"a">> >>,
       IssuerCommonName |-> <<"i">>, NotAfter |-> Date1],
      [CommonName |-> EmptyStr, DNSNames |-> << <<"a">>, <<"d">> >>,
       IssuerCommonName |-> EmptyStr, NotAfter |-> Date1],
      [CommonName |-> EmptyStr, DNSNames |-> << >>,
       IssuerCommonName |-> <<"i">>, NotAfter |-> Date1],
      [CommonName |-> EmptyStr, DNSNames |-> << EmptyStr >>,
       IssuerCommonName |-> <<"i">>, NotAfter |-> Date1] }

Addrs == << <<"1">>, <<"2">> >>

\* what the network gives one probe: the lookup's error and addresses, the
\* dial's error, the peer's certificate chain
NetOutcomes ==
    { [lookupErr |-> TRUE, ips |-> << >>, dialErr |-> FALSE, certs |-> << >>],
      [lookupErr |-> FALSE, ips |-> << >>, dialErr |-> FALSE, certs |-> << >>],
      [lookupErr |-> FALSE, ips |-> Addrs, dialErr |-> TRUE, certs |-> << >>],
      [lookupErr |-> FALSE, ips |-> Addrs, dialErr |-> FALSE, certs |-> << >>] }
    \cup
    { [lookupErr |-> FALSE, ips |-> Addrs, dialErr |-> FALSE, certs |-> <<c>>] :
        c \in Certs }

(***************************************************************************)
(* State.                                                                  *)
(***************************************************************************)
VARIABLES
    osArgs,          \* os.Args
    cacheExists,     \* .cache/tlds.cache is on disk
    cacheContent,    \* what the run last read from or wrote to the cache file
    maxWorkers,      \* 2 * runtime.NumCPU()
    net,             \* outcome the network gives each domain probed so far
    pc,              \* main's position
    baseDomain, forceRefresh, tlds,
    tasks, tasksCap, tasksClosed,
    results, resultsCap, resultsClosed,
    wg,              \* the WaitGroup's counter
    spawned,         \* i of the loop that starts the workers
    idx,             \* position of "range tlds"
    enqueued,        \* every domain sent on tasks, in order
    wk,              \* the worker goroutines: a bag of their local states
    conns,           \* number of open TLS connections
    csvFile,         \* <base>.csv on disk
    writer,          \* records handed to the csv.Writer, not yet flushed
    DomainsNotFound,
    logged,          \* messages printed, in order
    exitCode,        \* -1 while running
    taken,           \* history: the domains received from tasks, a bag
    lookups,         \* history: the domains net.LookupHost was called for
    dials,           \* history: the domains tls.DialWithDialer was called for
    nOpened,         \* history: number of connections a dial has returned
    nClosed          \* history: number of conn.Close() calls

vars ==
    <<osArgs, cacheExists, cacheContent, maxWorkers, net, pc, baseDomain,
      forceRefresh, tlds,
      tasks, tasksCap, tasksClosed, results, resultsCap, resultsClosed, wg,
      spawned, idx, enqueued, wk, conns, csvFile, writer, DomainsNotFound,
      logged, exitCode, taken, lookups, dials, nOpened, nClosed>>

\* a worker goroutine that waits in "range tasks"; domain, ip and result
\* are the locals of worker and scanDomain, zero outside their scope
IdleWorker ==
    [pc |-> "range", domain |-> EmptyStr, ip |-> EmptyStr,
     result |-> ZeroResult]

\* a worker goroutine that has returned
DoneWorker == [IdleWorker EXCEPT !.pc = "done"]

\* the local states the worker goroutines are in
Workers == BagToSet(wk)

\* the goroutines after one of them went from local state self to next
Step(self, next) == (wk (-) SetToBag({self})) (+) SetToBag({next})

NoCsv == [exists |-> FALSE, rows |-> << >>]

Init ==
    /\ osArgs \in ArgLists
    /\ cacheExists \in BOOLEAN
    /\ cacheContent = EmptyStr
    /\ maxWorkers \in {2 * n : n \in 1..MaxCPU}
    /\ net = [d \in {} |-> 0]
    /\ pc = "args"
    /\ baseDomain = EmptyStr
    /\ forceRefresh = FALSE
    /\ tlds = << >>
    /\ tasks = << >> /\ tasksCap = 0 /\ tasksClosed = FALSE
    /\ results = << >> /\ resultsCap = 0 /\ resultsClosed = FALSE
    /\ wg = 0
    /\ spawned = 0
    /\ idx = 1
    /\ enqueued = << >>
    /\ wk = EmptyBag
    /\ conns = 0
    /\ csvFile = NoCsv
    /\ writer = << >>
    /\ DomainsNotFound = << >>
    /\ logged = << >>
    /\ exitCode = -1
    /\ taken = EmptyBag
    /\ lookups = EmptyBag
    /\ dials = EmptyBag
    /\ nOpened = 0
    /\ nClosed = 0

(***************************************************************************)
(* main (main.go:36-75), with loadTLDs and exportToCsv.                    *)
(***************************************************************************)
\* main.go:37-46: the usage check and the flag
CheckArgs ==
    /\ pc = "args"
    /\ IF Len(osArgs) < 2
       THEN /\ logged' = Append(logged, "Usage")
            /\ exitCode' = 1
            /\ pc' = "exited"
            /\ UNCHANGED <<baseDomain, forceRefresh>>
       ELSE /\ baseDomain' = osArgs[2]
            /\ forceRefresh' = (Len(osArgs) > 2 /\ osArgs[3] = ForceFlag)
            /\ pc' = "load"
            /\ UNCHANGED <<logged, exitCode>>
    /\ UNCHANGED <<taken, lookups, dials, nOpened, nClosed,
                   osArgs, cacheExists, cacheContent, maxWorkers, net, tlds,
                   tasks, tasksCap,
                   tasksClosed, results, resultsCap, resultsClosed, wg,
                   spawned, idx, enqueued, wk, conns, csvFile, writer,
                   DomainsNotFound>>

\* loadTLDs, the cache branch (main.go:114-127): the fields of the cache
\* file when it is used and opens; no TLD otherwise
readCache(useCache, opened, content) ==
    IF useCache /\ opened THEN Split(content, cache_sep) ELSE << >>

\* faulty variant: the load error is printed but main carries on with no TLD
LoadFatal_continue(seen) ==
    /\ logged' = logged \o seen \o
            <<"Fetching TLDs from IANA...", "Failed to load TLDs">>
    /\ tlds' = << >>
    /\ pc' = "make"
    /\ UNCHANGED <<cacheExists, cacheContent, exitCode>>

\* main.go:131-134 and 49-51: fetchTLDs failed, loadTLDs returns the error
\* and logger.Fatalf prints it and exits with status 1
LoadFatal(seen) ==
    /\ logged' = logged \o seen \o
            <<"Fetching TLDs from IANA...", "Failed to load TLDs">>
    /\ exitCode' = 1
    /\ pc' = "exited"
    /\ UNCHANGED <<cacheExists, cacheContent, tlds>>

\* main.go:48-51 with loadTLDs (main.go:108-146) and fetchTLDs
\* (main.go:148-166).  openOK: os.Open succeeds; content: what io.ReadAll
\* reads from the cache file; resp: what http.Get gives; writeOK: os.MkdirAll
\* and os.Create succeed
LoadTLDs ==
    /\ pc = "load"
    /\ \E openOK \in BOOLEAN, content \in CacheContents, resp \in Responses,
          writeOK \in BOOLEAN :
        LET opened == cacheExists /\ openOK
            cached == readCache(~forceRefresh, opened, content)
            fetched == parseTLDs(resp.body)
            seen == IF ~forceRefresh /\ cacheExists
                    THEN <<"Loading TLDs from cache...">> ELSE << >>
        IN  IF Len(cached) # 0
            THEN /\ tlds' = cached
                 /\ cacheContent' = content
                 /\ logged' = logged \o seen \o <<"TLDs loaded from cache.">>
                 /\ pc' = "make"
                 /\ UNCHANGED <<cacheExists, exitCode>>
            ELSE IF resp.err
            THEN LoadFatal(seen)
            ELSE /\ tlds' = fetched
                 /\ IF writeOK
                    THEN /\ cacheExists' = TRUE
                         /\ cacheContent' = Join(fetched, cache_sep)
                    ELSE UNCHANGED <<cacheExists, cacheContent>>
                 /\ logged' = logged \o seen \o <<"Fetching TLDs from IANA...">>
                        \o (IF writeOK THEN <<"TLDs cached.">> ELSE << >>)
                 /\ pc' = "make"
                 /\ UNCHANGED exitCode
    /\ UNCHANGED <<taken, lookups, dials, nOpened, nClosed,
                   osArgs, maxWorkers, net, baseDomain, forceRefresh, tasks,
                   tasksCap, tasksClosed, results, resultsCap, resultsClosed,
                   wg, spawned, idx, enqueued, wk, conns, csvFile, writer,
                   DomainsNotFound>>

\* faulty variant: results is made with one slot less than len(tlds)
MakeChans_short ==
    /\ pc = "make"
    /\ tasksCap' = Len(tlds)
    /\ resultsCap' = IF Len(tlds) > 1 THEN Len(tlds) - 1 ELSE Len(tlds)
    /\ pc' = "spawn"
    /\ UNCHANGED <<taken, lookups, dials, nOpened, nClosed,
                   osArgs, cacheExists, cacheContent, maxWorkers, net,
                   baseDomain, forceRefresh, tlds, tasks, tasksClosed,
                   results, resultsClosed, wg, spawned, idx, enqueued, wk,
                   conns, csvFile, writer, DomainsNotFound, logged, exitCode>>

\* main.go:53-54: both channels get capacity len(tlds)
MakeChans ==
    /\ pc = "make"
    /\ tasksCap' = Len(tlds)
    /\ resultsCap' = Len(tlds)
    /\ pc' = "spawn"
    /\ UNCHANGED <<taken, lookups, dials, nOpened, nClosed,
                   osArgs, cacheExists, cacheContent, maxWorkers, net,
                   baseDomain,
                   forceRefresh, tlds, tasks, tasksClosed, results,
                   resultsClosed, wg, spawned, idx, enqueued, wk, conns,
                   csvFile, writer, DomainsNotFound, logged, exitCode>>

\* faulty variant: the start loop runs while i <= maxWorkers
SpawnWorker_oneMore ==
    /\ pc = "spawn"
    /\ spawned <= maxWorkers
    /\ wg' = wg + 1
    /\ wk' = wk (+) SetToBag({IdleWorker})
    /\ spawned' = spawned + 1
    /\ pc' = IF spawned + 1 <= maxWorkers THEN "spawn" ELSE "enum"
    /\ UNCHANGED <<taken, lookups, dials, nOpened, nClosed,
                   osArgs, cacheExists, cacheContent, maxWorkers, net,
                   baseDomain, forceRefresh, tlds, tasks, tasksCap,
                   tasksClosed, results, resultsCap, resultsClosed, idx,
                   enqueued, conns, csvFile, writer, DomainsNotFound, logged,
                   exitCode>>

\* main.go:57-60: one iteration, wg.Add(1) and go worker(...)
SpawnWorker ==
    /\ pc = "spawn"
    /\ spawned < maxWorkers
    /\ wg' = wg + 1
    /\ wk' = wk (+) SetToBag({IdleWorker})
    /\ spawned' = spawned + 1
    /\ pc' = IF spawned + 1 < maxWorkers THEN "spawn" ELSE "enum"
    /\ UNCHANGED <<taken, lookups, dials, nOpened, nClosed,
                   osArgs, cacheExists, cacheContent, maxWorkers, net,
                   baseDomain,
                   forceRefresh, tlds, tasks, tasksCap, tasksClosed, results,
                   resultsCap, resultsClosed, idx, enqueued, conns, csvFile,
                   writer, DomainsNotFound, logged, exitCode>>

\* faulty variant: the IDN prefix literal mistyped
isIDN_typo(tld) == HasPrefix(tld, <<"x", "n", "-", "-", "-">>)

\* main.go:63: the test that skips IDN TLDs
isIDN(tld) == HasPrefix(tld, XnPrefix)

\* main.go:62-68: one iteration of "range tlds"; the send blocks while the
\* buffer is full and panics on a closed channel
Enumerate ==
    /\ pc = "enum"
    /\ idx <= Len(tlds)
    /\ LET tld == tlds[idx]
           domain == SprintfDomain(baseDomain, tld)
       IN  IF isIDN(tld)
           THEN /\ idx' = idx + 1
                /\ UNCHANGED <<tasks, enqueued, pc, exitCode>>
           ELSE IF tasksClosed
           THEN /\ pc' = "panic"
                /\ exitCode' = 2
                /\ UNCHANGED <<tasks, enqueued, idx>>
           ELSE /\ Len(tasks) < tasksCap
                /\ tasks' = Append(tasks, domain)
                /\ enqueued' = Append(enqueued, domain)
                /\ idx' = idx + 1
                /\ UNCHANGED <<pc, exitCode>>
    /\ UNCHANGED <<taken, lookups, dials, nOpened, nClosed,
                   osArgs, cacheExists, cacheContent, maxWorkers, net,
                   baseDomain,
                   forceRefresh, tlds, tasksCap, tasksClosed, results,
                   resultsCap, resultsClosed, wg, spawned, wk, conns, csvFile,
                   writer, DomainsNotFound, logged>>

\* faulty variant: close(tasks) sits inside the loop body
CloseTasks_inLoop ==
    /\ pc = "enum"
    /\ ~tasksClosed \/ idx > Len(tlds)
    /\ tasksClosed' = TRUE
    /\ pc' = IF idx > Len(tlds) THEN "wait" ELSE "enum"
    /\ UNCHANGED <<taken, lookups, dials, nOpened, nClosed,
                   osArgs, cacheExists, cacheContent, maxWorkers, net,
                   baseDomain, forceRefresh, tlds, tasks, tasksCap, results,
                   resultsCap, resultsClosed, wg, spawned, idx, enqueued, wk,
                   conns, csvFile, writer, DomainsNotFound, logged, exitCode>>

\* main.go:69: close(tasks) once the range is exhausted
CloseTasks ==
    /\ pc = "enum"
    /\ idx > Len(tlds)
    /\ tasksClosed' = TRUE
    /\ pc' = "wait"
    /\ UNCHANGED <<taken, lookups, dials, nOpened, nClosed,
                   osArgs, cacheExists, cacheContent, maxWorkers, net,
                   baseDomain,
                   forceRefresh, tlds, tasks, tasksCap, results, resultsCap,
                   resultsClosed, wg, spawned, idx, enqueued, wk, conns,
                   csvFile, writer, DomainsNotFound, logged, exitCode>>

\* faulty variant: main goes on without waiting for the workers
WgWait_noWait ==
    /\ pc = "wait"
    /\ pc' = "close_results"
    /\ UNCHANGED <<taken, lookups, dials, nOpened, nClosed,
                   osArgs, cacheExists, cacheContent, maxWorkers, net,
                   baseDomain, forceRefresh, tlds, tasks, tasksCap,
                   tasksClosed, results, resultsCap, resultsClosed, wg,
                   spawned, idx, enqueued, wk, conns, csvFile, writer,
                   DomainsNotFound, logged, exitCode>>

\* main.go:71: wg.Wait() returns when the counter is zero
WgWait ==
    /\ pc = "wait"
    /\ wg = 0
    /\ pc' = "close_results"
    /\ UNCHANGED <<taken, lookups, dials, nOpened, nClosed,
                   osArgs, cacheExists, cacheContent, maxWorkers, net,
                   baseDomain,
                   forceRefresh, tlds, tasks, tasksCap, tasksClosed, results,
                   resultsCap, resultsClosed, wg, spawned, idx, enqueued, wk,
                   conns, csvFile, writer, DomainsNotFound, logged, exitCode>>

\* main.go:72: close(results)
CloseResults ==
    /\ pc = "close_results"
    /\ resultsClosed' = TRUE
    /\ pc' = "export"
    /\ UNCHANGED <<taken, lookups, dials, nOpened, nClosed,
                   osArgs, cacheExists, cacheContent, maxWorkers, net,
                   baseDomain,
                   forceRefresh, tlds, tasks, tasksCap, tasksClosed, results,
                   resultsCap, wg, spawned, idx, enqueued, wk, conns, csvFile,
                   writer, DomainsNotFound, logged, exitCode>>

\* faulty variant: the creation error is logged without returning
CreateFailed_continue ==
    /\ logged' = Append(logged, "Failed to create file")
    /\ writer' = <<CsvHeader>>
    /\ pc' = "drain"
    /\ UNCHANGED csvFile

\* exportToCsv, main.go:80-83: os.Create failed; the error is logged and
\* the function returns
CreateFailed ==
    /\ logged' = Append(logged, "Failed to create file")
    /\ pc' = "return"
    /\ UNCHANGED <<csvFile, writer>>

\* exportToCsv, main.go:78-89: os.Create, then the header row; on a
\* creation failure the function logs and returns
ExportCreate ==
    /\ pc = "export"
    /\ \E createOK \in BOOLEAN :
        IF createOK
        THEN /\ csvFile' = [exists |-> TRUE, rows |-> << >>]
             /\ writer' = <<CsvHeader>>
             /\ pc' = "drain"
             /\ UNCHANGED logged
        ELSE CreateFailed
    /\ UNCHANGED <<taken, lookups, dials, nOpened, nClosed,
                   osArgs, cacheExists, cacheContent, maxWorkers, net,
                   baseDomain,
                   forceRefresh, tlds, tasks, tasksCap, tasksClosed, results,
                   resultsCap, resultsClosed, wg, spawned, idx, enqueued, wk,
                   conns, DomainsNotFound, exitCode>>

\* faulty variant: NXDOMAIN results are skipped without being recorded
ExportRecv_dropNX ==
    /\ pc = "drain"
    /\ Len(results) > 0
    /\ LET res == Head(results)
       IN  IF res.Status = NXDOMAIN
           THEN UNCHANGED <<writer, DomainsNotFound>>
           ELSE /\ writer' = Append(writer, csvRow(res))
                /\ UNCHANGED DomainsNotFound
    /\ results' = Tail(results)
    /\ UNCHANGED <<taken, lookups, dials, nOpened, nClosed,
                   osArgs, cacheExists, cacheContent, maxWorkers, net, pc,
                   baseDomain, forceRefresh, tlds, tasks, tasksCap,
                   tasksClosed, resultsCap, resultsClosed, wg, spawned, idx,
                   enqueued, wk, conns, csvFile, logged, exitCode>>

\* faulty variant: a row is written for NXDOMAIN results too
ExportRecv_rowForNX ==
    /\ pc = "drain"
    /\ Len(results) > 0
    /\ LET res == Head(results)
       IN  /\ writer' = Append(writer, csvRow(res))
           /\ DomainsNotFound' =
                IF res.Status = NXDOMAIN
                THEN Append(DomainsNotFound, res.Domain)
                ELSE DomainsNotFound
    /\ results' = Tail(results)
    /\ UNCHANGED <<taken, lookups, dials, nOpened, nClosed,
                   osArgs, cacheExists, cacheContent, maxWorkers, net, pc,
                   baseDomain, forceRefresh, tlds, tasks, tasksCap,
                   tasksClosed, resultsCap, resultsClosed, wg, spawned, idx,
                   enqueued, wk, conns, csvFile, logged, exitCode>>

\* exportToCsv, main.go:92-100: one iteration of "range results"
ExportRecv ==
    /\ pc = "drain"
    /\ Len(results) > 0
    /\ LET res == Head(results)
       IN  IF res.Status = NXDOMAIN
           THEN /\ DomainsNotFound' = Append(DomainsNotFound, res.Domain)
                /\ UNCHANGED writer
           ELSE /\ writer' = Append(writer, csvRow(res))
                /\ UNCHANGED DomainsNotFound
    /\ results' = Tail(results)
    /\ UNCHANGED <<taken, lookups, dials, nOpened, nClosed,
                   osArgs, cacheExists, cacheContent, maxWorkers, net, pc,
                   baseDomain,
                   forceRefresh, tlds, tasks, tasksCap, tasksClosed,
                   resultsCap, resultsClosed, wg, spawned, idx, enqueued, wk,
                   conns, csvFile, logged, exitCode>>

\* exportToCsv, main.go:102-106: the range ends when results is closed and
\* drained; the summary is logged and the deferred Flush and Close run
ExportFinish ==
    /\ pc = "drain"
    /\ Len(results) = 0
    /\ resultsClosed
    /\ logged' = logged \o <<"Found domains that do not exist",
                             "Domains not found", "Results exported to">>
    /\ csvFile' = [csvFile EXCEPT !.rows = csvFile.rows \o writer]
    /\ writer' = << >>
    /\ pc' = "return"
    /\ UNCHANGED <<taken, lookups, dials, nOpened, nClosed,
                   osArgs, cacheExists, cacheContent, maxWorkers, net,
                   baseDomain,
                   forceRefresh, tlds, tasks, tasksCap, tasksClosed, results,
                   resultsCap, resultsClosed, wg, spawned, idx, enqueued, wk,
                   conns, DomainsNotFound, exitCode>>

\* main.go:75: main returns and the process exits with status 0
MainReturn ==
    /\ pc = "return"
    /\ exitCode' = 0
    /\ pc' = "exited"
    /\ UNCHANGED <<taken, lookups, dials, nOpened, nClosed,
                   osArgs, cacheExists, cacheContent, maxWorkers, net,
                   baseDomain,
                   forceRefresh, tlds, tasks, tasksCap, tasksClosed, results,
                   resultsCap, resultsClosed, wg, spawned, idx, enqueued, wk,
                   conns, csvFile, writer, DomainsNotFound, logged>>

(***************************************************************************)
(* worker (main.go:168-174) and scanDomain (main.go:176-206), one step per *)
(* blocking operation.  The goroutines carry no identity: self is the      *)
(* local state of the goroutine that takes the step.  Goroutines run only  *)
(* while the process does.                                                 *)
(***************************************************************************)
Running == pc \notin {"exited", "panic"}

\* faulty variant: the receive leaves the domain in the queue
WorkerRecv_peek(self) ==
    /\ Running
    /\ self.pc = "range"
    /\ Len(tasks) > 0
    /\ wk' = Step(self, [self EXCEPT !.pc = "lookup", !.domain = Head(tasks)])
    /\ taken' = taken (+) SetToBag({Head(tasks)})
    /\ UNCHANGED <<lookups, dials, nOpened, nClosed,
                   osArgs, cacheExists, cacheContent, maxWorkers, net, pc,
                   baseDomain, forceRefresh, tlds, tasks, tasksCap, tasksClosed,
                   results, resultsCap, resultsClosed, wg, spawned, idx,
                   enqueued, conns, csvFile, writer, DomainsNotFound, logged,
                   exitCode>>

\* main.go:170: "range tasks" receives the next domain
WorkerRecv(self) ==
    /\ Running
    /\ self.pc = "range"
    /\ Len(tasks) > 0
    /\ wk' = Step(self, [self EXCEPT !.pc = "lookup", !.domain = Head(tasks)])
    /\ tasks' = Tail(tasks)
    /\ taken' = taken (+) SetToBag({Head(tasks)})
    /\ UNCHANGED <<lookups, dials, nOpened, nClosed,
                   osArgs, cacheExists, cacheContent, maxWorkers, net, pc,
                   baseDomain, forceRefresh, tlds, tasksCap,
                   tasksClosed, results, resultsCap, resultsClosed, wg, spawned,
                   idx,
                   enqueued, conns, csvFile, writer, DomainsNotFound, logged,
                   exitCode>>

\* faulty variant: the worker returns without wg.Done()
WorkerExit_noDone(self) ==
    /\ Running
    /\ self.pc = "range"
    /\ Len(tasks) = 0
    /\ tasksClosed
    /\ wk' = Step(self, DoneWorker)
    /\ UNCHANGED <<taken, lookups, dials, nOpened, nClosed,
                   osArgs, cacheExists, cacheContent, maxWorkers, net, pc,
                   baseDomain, forceRefresh, tlds, tasks, tasksCap,
                   tasksClosed, results, resultsCap, resultsClosed, wg,
                   spawned, idx, enqueued, conns, csvFile, writer,
                   DomainsNotFound, logged, exitCode>>

\* main.go:169-170: "range tasks" ends on a closed, drained channel and the
\* deferred wg.Done() runs
WorkerExit(self) ==
    /\ Running
    /\ self.pc = "range"
    /\ Len(tasks) = 0
    /\ tasksClosed
    /\ wk' = Step(self, DoneWorker)
    /\ wg' = wg - 1
    /\ UNCHANGED <<taken, lookups, dials, nOpened, nClosed,
                   osArgs, cacheExists, cacheContent, maxWorkers, net, pc,
                   baseDomain, forceRefresh, tlds, tasks, tasksCap,
                   tasksClosed, results, resultsCap, resultsClosed, spawned,
                   idx,
                   enqueued, conns, csvFile, writer, DomainsNotFound, logged,
                   exitCode>>

\* main.go:177-181: net.LookupHost; a domain probed before answers as it
\* did then
LookupHost(self) ==
    /\ Running
    /\ self.pc = "lookup"
    /\ \E o \in NetOutcomes :
        /\ self.domain \in DOMAIN net => o = net[self.domain]
        /\ net' = [d \in DOMAIN net \cup {self.domain} |->
                      IF d = self.domain THEN o ELSE net[d]]
        /\ IF lookupFailed(o)
           THEN wk' = Step(self, [self EXCEPT
                                    !.pc = "send",
                                    !.result = nxdomainResult(self.domain)])
           ELSE wk' = Step(self, [self EXCEPT !.pc = "dial", !.ip = o.ips[1]])
    /\ lookups' = lookups (+) SetToBag({self.domain})
    /\ UNCHANGED <<taken, dials, nOpened, nClosed,
                   osArgs, cacheExists, cacheContent, maxWorkers, pc,
                   baseDomain, forceRefresh, tlds, tasks, tasksCap,
                   tasksClosed, results, resultsCap, resultsClosed, wg, spawned,
                   idx,
                   enqueued, conns, csvFile, writer, DomainsNotFound, logged,
                   exitCode>>

\* faulty variant: a failed handshake is tried a second time
DialTLS_retry(self) ==
    /\ Running
    /\ self.pc = "dial"
    /\ IF net[self.domain].dialErr
       THEN /\ wk' = IF CopiesIn(self.domain, dials) = 0
                     THEN wk
                     ELSE Step(self, [self EXCEPT
                            !.pc = "send",
                            !.ip = EmptyStr,
                            !.result = tlsErrorResult(self.domain, self.ip)])
            /\ UNCHANGED conns
       ELSE /\ wk' = Step(self, [self EXCEPT !.pc = "state"])
            /\ conns' = conns + 1
    /\ dials' = dials (+) SetToBag({self.domain})
    /\ nOpened' = IF net[self.domain].dialErr THEN nOpened ELSE nOpened + 1
    /\ UNCHANGED <<taken, lookups, nClosed,
                   osArgs, cacheExists, cacheContent, maxWorkers, net, pc,
                   baseDomain, forceRefresh, tlds, tasks, tasksCap,
                   tasksClosed, results, resultsCap, resultsClosed, wg,
                   spawned, idx, enqueued, csvFile, writer, DomainsNotFound,
                   logged, exitCode>>

\* main.go:183-190: tls.DialWithDialer; on success the connection is open
\* and its Close is deferred
DialTLS(self) ==
    /\ Running
    /\ self.pc = "dial"
    /\ IF net[self.domain].dialErr
       THEN /\ wk' = Step(self, [self EXCEPT
                            !.pc = "send",
                            !.ip = EmptyStr,
                            !.result = tlsErrorResult(self.domain, self.ip)])
            /\ UNCHANGED conns
       ELSE /\ wk' = Step(self, [self EXCEPT !.pc = "state"])
            /\ conns' = conns + 1
    /\ dials' = dials (+) SetToBag({self.domain})
    /\ nOpened' = IF net[self.domain].dialErr THEN nOpened ELSE nOpened + 1
    /\ UNCHANGED <<taken, lookups, nClosed,
                   osArgs, cacheExists, cacheContent, maxWorkers, net, pc,
                   baseDomain, forceRefresh, tlds, tasks, tasksCap,
                   tasksClosed, results, resultsCap, resultsClosed, wg, spawned,
                   idx,
                   enqueued, csvFile, writer, DomainsNotFound, logged,
                   exitCode>>

\* faulty variant: the NO CERT return leaves the connection open
InspectCert_leak(self) ==
    /\ Running
    /\ self.pc = "state"
    /\ LET certs == net[self.domain].certs
       IN  /\ wk' = Step(self, [self EXCEPT
                    !.pc = "send",
                    !.ip = EmptyStr,
                    !.result =
                        IF Len(certs) = 0
                        THEN noCertResult(self.domain, self.ip)
                        ELSE okResult(self.domain, self.ip, certs[1])])
           /\ conns' = IF Len(certs) = 0 THEN conns ELSE conns - 1
           /\ nClosed' = IF Len(certs) = 0 THEN nClosed ELSE nClosed + 1
    /\ UNCHANGED <<taken, lookups, dials, nOpened,
                   osArgs, cacheExists, cacheContent, maxWorkers, net, pc,
                   baseDomain, forceRefresh, tlds, tasks, tasksCap,
                   tasksClosed, results, resultsCap, resultsClosed, wg,
                   spawned, idx, enqueued, csvFile, writer, DomainsNotFound,
                   logged, exitCode>>

\* main.go:192-205: the peer certificates are read, the result is built and
\* the deferred conn.Close() runs as scanDomain returns
InspectCert(self) ==
    /\ Running
    /\ self.pc = "state"
    /\ LET certs == net[self.domain].certs
       IN  wk' = Step(self, [self EXCEPT
                    !.pc = "send",
                    !.ip = EmptyStr,
                    !.result =
                        IF Len(certs) = 0
                        THEN noCertResult(self.domain, self.ip)
                        ELSE okResult(self.domain, self.ip, certs[1])])
    /\ conns' = conns - 1
    /\ nClosed' = nClosed + 1
    /\ UNCHANGED <<taken, lookups, dials, nOpened,
                   osArgs, cacheExists, cacheContent, maxWorkers, net, pc,
                   baseDomain, forceRefresh, tlds, tasks, tasksCap,
                   tasksClosed, results, resultsCap, resultsClosed, wg, spawned,
                   idx,
                   enqueued, csvFile, writer, DomainsNotFound, logged,
                   exitCode>>

\* faulty variant: a result sent while another worker is sending too is lost
WorkerSend_race(self) ==
    /\ Running
    /\ self.pc = "send"
    /\ Len(results) < resultsCap
    /\ results' = IF \E other \in Workers :
                        other.pc = "send" /\ (other # self \/ wk[self] > 1)
                  THEN results
                  ELSE Append(results, self.result)
    /\ wk' = Step(self, IdleWorker)
    /\ UNCHANGED <<taken, lookups, dials, nOpened, nClosed,
                   osArgs, cacheExists, cacheContent, maxWorkers, net, pc,
                   baseDomain, forceRefresh, tlds, tasks, tasksCap,
                   tasksClosed, resultsCap, resultsClosed, wg, spawned, idx,
                   enqueued, conns, csvFile, writer, DomainsNotFound, logged,
                   exitCode>>

\* faulty variant: a worker sends its result only when the probe succeeded
WorkerSend_onlyOK(self) ==
    /\ Running
    /\ self.pc = "send"
    /\ IF self.result.Status = OK
       THEN /\ Len(results) < resultsCap
            /\ results' = Append(results, self.result)
       ELSE UNCHANGED results
    /\ wk' = Step(self, IdleWorker)
    /\ UNCHANGED <<taken, lookups, dials, nOpened, nClosed,
                   osArgs, cacheExists, cacheContent, maxWorkers, net, pc,
                   baseDomain, forceRefresh, tlds, tasks, tasksCap,
                   tasksClosed, resultsCap, resultsClosed, wg, spawned, idx,
                   enqueued, conns, csvFile, writer, DomainsNotFound, logged,
                   exitCode>>

\* main.go:172: results <- result; the send blocks while the buffer is full
\* and panics on a closed channel; then the loop body's locals end
WorkerSend(self) ==
    /\ Running
    /\ self.pc = "send"
    /\ IF resultsClosed
       THEN /\ pc' = "panic"
            /\ exitCode' = 2
            /\ UNCHANGED <<results, wk>>
       ELSE /\ Len(results) < resultsCap
            /\ results' = Append(results, self.result)
            /\ wk' = Step(self, IdleWorker)
            /\ UNCHANGED <<pc, exitCode>>
    /\ UNCHANGED <<taken, lookups, dials, nOpened, nClosed,
                   osArgs, cacheExists, cacheContent, maxWorkers, net,
                   baseDomain, forceRefresh, tlds, tasks, tasksCap,
                   tasksClosed, resultsCap, resultsClosed, wg, spawned, idx,
                   enqueued, conns, csvFile, writer, DomainsNotFound, logged>>

Next ==
    \/ CheckArgs
    \/ LoadTLDs
    \/ MakeChans
    \/ SpawnWorker
    \/ Enumerate
    \/ CloseTasks
    \/ WgWait
    \/ CloseResults
    \/ ExportCreate
    \/ ExportRecv
    \/ ExportFinish
    \/ MainReturn
    \/ \E self \in Workers :
        \/ WorkerRecv(self)
        \/ WorkerExit(self)
        \/ LookupHost(self)
        \/ DialTLS(self)
        \/ InspectCert(self)
        \/ WorkerSend(self)

Spec == Init /\ [][Next]_vars

\* the steps of the main goroutine
MainStep ==
    \/ CheckArgs
    \/ LoadTLDs
    \/ MakeChans
    \/ SpawnWorker
    \/ Enumerate
    \/ CloseTasks
    \/ WgWait
    \/ CloseResults
    \/ ExportCreate
    \/ ExportRecv
    \/ ExportFinish
    \/ MainReturn

\* the steps of the worker goroutines
WorkerStep ==
    \E self \in Workers :
        \/ WorkerRecv(self)
        \/ WorkerExit(self)
        \/ LookupHost(self)
        \/ DialTLS(self)
        \/ InspectCert(self)
        \/ WorkerSend(self)

\* The Go scheduler runs every runnable goroutine eventually, and every
\* blocking call of a probe returns (LookupHost answers or fails, the dial
\* has a 5 s timeout): a goroutine whose next step stays possible takes it.
FairSpec == Spec /\ WF_vars(MainStep) /\ WF_vars(WorkerStep)

(***************************************************************************)
(* Properties.                                                             *)
(***************************************************************************)
SeqRange(q) == {q[i] : i \in 1..Len(q)}

\* how many positions of q hold x
Count(q, x) == Cardinality({i \in 1..Len(q) : q[i] = x})

\* two sequences hold the same elements the same number of times
SameBag(p, q) ==
    /\ Len(p) = Len(q)
    /\ \A x \in SeqRange(p) \cup SeqRange(q) : Count(p, x) = Count(q, x)

DomainsOf(rs) == [i \in 1..Len(rs) |-> rs[i].Domain]

\* C1: at the moment main has closed the results channel (before the
\* aggregator takes anything) the channel holds one ScanResult per domain
\* sent on tasks, counted with multiplicity: none missing, none twice,
\* whatever the status of the other probes.
C1_OneResultPerCandidate ==
    pc = "export" => SameBag(DomainsOf(results), enqueued)

\* C1 witness: results was just closed holding the results of two
\* different candidates, one of which ended in NXDOMAIN, TLS ERROR or NO CERT
C1_Witness ==
    /\ pc = "export"
    /\ resultsClosed
    /\ Len(enqueued) = 2
    /\ enqueued[1] # enqueued[2]
    /\ \E i, j \in 1..Len(results) :
        /\ i # j
        /\ results[i].Status \in {NXDOMAIN, TLS_ERROR, NO_CERT}
        /\ results[j].Status = OK

\* rows of the CSV file after the header row
ReportableRows ==
    IF csvFile.exists /\ Len(csvFile.rows) > 0
    THEN Len(csvFile.rows) - 1
    ELSE 0

ReturnedResults ==
    {w.result : w \in {v \in Workers : v.pc = "send"}}
        \cup SeqRange(results)

\* C3: every ScanResult returned by scanDomain is classified by the probe
\* outcome alone: lookup error or no address gives NXDOMAIN with IP "-";
\* addresses and a handshake error give TLS ERROR with the first address;
\* a handshake without peer certificates gives NO CERT; a handshake with a
\* certificate gives OK; no other status exists, and the result carries the
\* probed domain.
C3_Classification ==
    \A r \in ReturnedResults :
        /\ r.Domain \in DOMAIN net
        /\ r.Status \in {NXDOMAIN, TLS_ERROR, NO_CERT, OK}
        /\ LET o == net[r.Domain]
               noAddr == o.lookupErr \/ o.ips = << >>
           IN  /\ noAddr => (r.Status = NXDOMAIN /\ r.IP = <<"-">>)
               /\ (~noAddr /\ o.dialErr) =>
                    (r.Status = TLS_ERROR /\ r.IP = Head(o.ips))
               /\ (~noAddr /\ ~o.dialErr /\ o.certs = << >>) =>
                    (r.Status = NO_CERT /\ r.IP = Head(o.ips))
               /\ (~noAddr /\ ~o.dialErr /\ o.certs # << >>) =>
                    (r.Status = OK /\ r.IP = Head(o.ips))

\* C3 witness: a TLS ERROR result carrying the first resolved address sits
\* in the results channel next to an NXDOMAIN result
C3_Witness ==
    \E i, j \in 1..Len(results) :
        /\ results[i].Status = TLS_ERROR
        /\ results[i].IP = Addrs[1]
        /\ results[j].Status = NXDOMAIN
        /\ results[j].IP = IpSentinel

\* the certificate fields of a result are all empty
NoCertFields(r) ==
    r.Subject = << >> /\ r.Issuer = << >> /\ r.ValidTo = << >>

\* C4 as stated: in every ScanResult in the results channel, Subject, Issuer
\* and ValidTo are empty unless Status is OK, and Subject is never empty
\* when Status is OK.
C4_SubjectNeverEmpty ==
    \A r \in SeqRange(results) :
        /\ r.Status # OK => NoCertFields(r)
        /\ r.Status = OK => r.Subject # << >>

\* C4 amended: Subject, Issuer and ValidTo are empty unless Status is OK;
\* when Status is OK, ValidTo is not empty, and Subject is empty exactly
\* when the leaf certificate has an empty common name and an empty first
\* DNS name.
C4_CertFieldsOnlyWhenOK ==
    \A r \in SeqRange(results) :
        /\ r.Status # OK => NoCertFields(r)
        /\ r.Status = OK =>
            LET leaf == Head(net[r.Domain].certs)
            IN  /\ r.ValidTo # << >>
                /\ r.Subject = << >> <=>
                    /\ leaf.CommonName = << >>
                    /\ leaf.DNSNames # << >>
                    /\ Head(leaf.DNSNames) = << >>

\* C4 witness: the results channel holds an OK result with a subject and a
\* NO CERT result
C4_Witness ==
    \E i, j \in 1..Len(results) :
        /\ results[i].Status = OK
        /\ results[i].Subject # << >>
        /\ results[i].ValidTo # << >>
        /\ results[j].Status = NO_CERT

\* the TLD begins with the four characters x n - -
StartsWithXn(t) ==
    /\ Len(t) >= 4
    /\ t[1] = "x" /\ t[2] = "n" /\ t[3] = "-" /\ t[4] = "-"

\* the candidates of a TLD list: base, a dot and the TLD, for the TLDs that
\* do not begin with xn--, in the order of the list
Candidates(base, ts) ==
    LET kept == SelectSeq(ts, LAMBDA t : ~StartsWithXn(t))
    IN  [i \in 1..Len(kept) |-> base \o <<".">> \o kept[i]]

\* C5: the domains main has sent on tasks are, at every point of the loop,
\* exactly the candidates of the TLDs visited so far, in list order, and
\* tasks is closed only after the whole list was visited; what is enqueued
\* is a function of the base domain and the TLD list alone.
C5_Enumeration ==
    /\ enqueued = Candidates(baseDomain, SubSeq(tlds, 1, idx - 1))
    /\ tasksClosed =>
        /\ idx = Len(tlds) + 1
        /\ enqueued = Candidates(baseDomain, tlds)

\* C5 witness: tasks is closed after a list of an IDN TLD followed by
\* another TLD, and only the second was enqueued
C5_Witness ==
    /\ tasksClosed
    /\ Len(tlds) = 2
    /\ StartsWithXn(tlds[1])
    /\ ~StartsWithXn(tlds[2])
    /\ enqueued = <<baseDomain \o <<".">> \o tlds[2]>>

\* C6 as stated: every TLD of the loaded list is filtered and concatenated
\* as its lower-cased, trimmed form, whichever source the list came from.
C6_NormalisedBeforeUse ==
    tasksClosed =>
        enqueued =
            Candidates(baseDomain,
                       [i \in 1..Len(tlds) |-> ToLower(TrimSpace(tlds[i]))])

\* no entry of the list can be probed: each is empty or an IDN TLD
NoUsableTLD(ts) ==
    \A i \in 1..Len(ts) : ts[i] = << >> \/ StartsWithXn(ts[i])

\* C7 as stated: when loadTLDs has returned a list that is empty or has no
\* usable TLD, no worker is started and no output file is written.
C7_EmptyListStartsNoScan ==
    (pc \notin {"args", "load"} /\ NoUsableTLD(tlds)) =>
        /\ spawned = 0
        /\ ~csvFile.exists

\* C8: without a base domain argument, or when loading the TLDs failed, the
\* process has exited with status 1, and a run that exited with status 1
\* started no worker, enqueued and probed nothing and created no output
\* file.
C8_StartupFailureStopsRun ==
    /\ (Len(osArgs) < 2 /\ pc # "args") => (pc = "exited" /\ exitCode = 1)
    /\ "Failed to load TLDs" \in SeqRange(logged) =>
            (pc = "exited" /\ exitCode = 1)
    /\ exitCode = 1 =>
        /\ spawned = 0 /\ wg = 0
        /\ wk = EmptyBag
        /\ enqueued = << >> /\ tasks = << >> /\ results = << >>
        /\ DOMAIN net = {}
        /\ ~csvFile.exists /\ writer = << >>

\* C8 witness: a forced refresh failed although a cache file exists, and the
\* process exited with status 1
C8_Witness ==
    /\ exitCode = 1
    /\ pc = "exited"
    /\ forceRefresh
    /\ cacheExists
    /\ "Failed to load TLDs" \in SeqRange(logged)

ExpectedResults ==
    [i \in 1..Len(enqueued) |-> scanDomain(enqueued[i], net[enqueued[i]])]

\* C10: whatever the number of workers, the results delivered to the
\* aggregator are, as a bag, the results of probing the enqueued candidates
\* with the network's answers; so are the rows written and the domains
\* recorded as not found.  The right-hand sides do not mention the workers.
C10_ResultsIndependentOfWorkers ==
    /\ pc = "export" => SameBag(results, ExpectedResults)
    /\ (pc = "return" /\ csvFile.exists) =>
        /\ SameBag(Tail(csvFile.rows),
                   [i \in 1..Len(SelectSeq(ExpectedResults,
                                    LAMBDA r : r.Status # NXDOMAIN)) |->
                       csvRow(SelectSeq(ExpectedResults,
                                    LAMBDA r : r.Status # NXDOMAIN)[i])])
        /\ SameBag(DomainsNotFound,
                   DomainsOf(SelectSeq(ExpectedResults,
                                    LAMBDA r : r.Status = NXDOMAIN)))

\* C10 witness: with four workers, the two results were delivered in the
\* opposite order of their candidates
C10_Witness ==
    /\ pc = "export"
    /\ maxWorkers = 4
    /\ Len(enqueued) = 2
    /\ Len(results) = 2
    /\ enqueued[1] # enqueued[2]
    /\ results[1].Domain = enqueued[2]
    /\ results[2].Domain = enqueued[1]

(***************************************************************************)
(* C11: completion.                                                        *)
(***************************************************************************)
\* the TLD list has been loaded and main goes on to create the channels
Loaded == pc = "make"

\* every worker goroutine has left "range tasks" and called wg.Done
AllWorkersDone ==
    /\ spawned = maxWorkers
    /\ Workers \subseteq {DoneWorker}
    /\ wg = 0

\* every candidate was taken and probed, the workers exited, wg.Wait
\* returned, results is closed and main returned
RunCompleted ==
    /\ pc = "exited"
    /\ exitCode = 0
    /\ Len(tasks) = 0
    /\ DOMAIN net = SeqRange(enqueued)
    /\ AllWorkersDone
    /\ resultsClosed

\* the process is over, or some goroutine can take a step
NoDeadlock == pc \in {"exited", "panic"} \/ ENABLED Next

NothingReportable ==
    \A i \in 1..Len(enqueued) :
        /\ enqueued[i] \in DOMAIN net
        /\ lookupFailed(net[enqueued[i]])

\* C12: when exportToCsv, having created the file, has returned and every
\* result it received was NXDOMAIN or no candidate was dispatched, the file
\* holds the header row and no data row, the success message was logged,
\* no error was, and the process exits with status 0.
C12_ZeroReportableTolerated ==
    (pc \in {"return", "exited"} /\ csvFile.exists /\ NothingReportable) =>
        /\ csvFile.rows = <<CsvHeader>>
        /\ Len(DomainsNotFound) = Len(enqueued)
        /\ Count(logged, "Results exported to") = 1
        /\ Count(logged, "Failed to create file") = 0
        /\ exitCode \in {-1, 0}

C12_Witness ==
    /\ pc = "exited"
    /\ csvFile.exists
    /\ NothingReportable
    /\ Len(enqueued) >= 2
    /\ csvFile.rows = <<CsvHeader>>

(***************************************************************************)
(* C13: certSubject.                                                       *)
(***************************************************************************)
\* the results scanDomain has just built from a certificate, each with the
\* leaf certificate it was built from
SubjectsReturned ==
    {<<Head(net[w.domain].certs), w.result.Subject>> :
        w \in {v \in Workers : v.pc = "send" /\ v.result.Status = OK}}

\* the subject rule: the common name when it is not empty, else the first
\* DNS name when there is one, else "(no subject)"
SubjectRule(leaf, subject) ==
    /\ Len(leaf.CommonName) > 0 => subject = leaf.CommonName
    /\ (Len(leaf.CommonName) = 0 /\ Len(leaf.DNSNames) >= 1) =>
            subject = Head(leaf.DNSNames)
    /\ (Len(leaf.CommonName) = 0 /\ Len(leaf.DNSNames) = 0) =>
            subject = <<"(", "n", "o", " ", "s", "u", "b", "j", "e", "c", "t",
                        ")">>

\* C13 as stated: certSubject follows the subject rule, a non-empty common
\* name wins over any DNS name, and the subject is never the empty string.
C13_SubjectRuleNeverEmpty ==
    \A p \in SubjectsReturned :
        /\ SubjectRule(p[1], p[2])
        /\ Len(p[2]) > 0

\* C13 amended: certSubject follows the subject rule, a non-empty common
\* name wins over any DNS name, and the subject is the empty string only
\* for a certificate without common name whose first DNS name is empty.
C13_SubjectRule ==
    \A p \in SubjectsReturned :
        /\ SubjectRule(p[1], p[2])
        /\ Len(p[2]) = 0 =>
            /\ Len(p[1].CommonName) = 0
            /\ Len(p[1].DNSNames) >= 1
            /\ Len(Head(p[1].DNSNames)) = 0

\* C13 witness: certSubject has returned the common name of a certificate
\* that also has a DNS name, and "(no subject)" for one that has neither
C13_Witness ==
    /\ \E p \in SubjectsReturned :
        /\ Len(p[1].CommonName) > 0
        /\ Len(p[1].DNSNames) >= 1
        /\ p[2] = p[1].CommonName
        /\ p[2] # Head(p[1].DNSNames)
    /\ \E p \in SubjectsReturned :
        /\ Len(p[1].CommonName) = 0
        /\ Len(p[1].DNSNames) = 0
        /\ p[2] = NoSubject

(***************************************************************************)
(* C14: the barrier between the workers and the aggregator.                *)
(***************************************************************************)
\* main is past wg.Wait: about to close results, or in exportToCsv
PastBarrier ==
    resultsClosed \/ pc \in {"close_results", "export", "drain", "return"}

\* C14: whenever results is closed or main is at close(results) or in
\* exportToCsv, all maxWorkers workers were started and each has returned
\* through wg.Done, none is probing or holds a result to send, and tasks is
\* closed and empty.
C14_Barrier ==
    PastBarrier =>
        /\ BagCardinality(wk) = maxWorkers
        /\ \A w \in Workers : w.pc = "done"
        /\ wg = 0
        /\ tasksClosed
        /\ Len(tasks) = 0

\* C14 witness: the aggregator reads a closed results channel that holds
\* two results while all four workers have returned
C14_Witness ==
    /\ pc = "drain"
    /\ resultsClosed
    /\ Len(results) = 2
    /\ maxWorkers = 4
    /\ wk = SetToBag({DoneWorker}) (+) SetToBag({DoneWorker})
              (+) SetToBag({DoneWorker}) (+) SetToBag({DoneWorker})

(***************************************************************************)
(* C15: a candidate is processed once.                                     *)
(***************************************************************************)
\* the items of q as a bag
BagOfSeq(q) == [x \in SeqRange(q) |-> Count(q, x)]

\* the domains of the workers that are at position p, as a bag
DomainsAt(p) ==
    LET at == {w \in Workers : w.pc = p}
    IN  [d \in {w.domain : w \in at} |->
            LET same == {w \in at : w.domain = d}
                copies[S \in SUBSET same] ==
                    IF S = {} THEN 0
                    ELSE LET w == CHOOSE v \in S : TRUE
                         IN  wk[w] + copies[S \ {w}]
            IN  copies[same]]

\* C15: in every state each candidate sent on tasks is either still queued
\* or was received by a worker exactly once, and scanDomain was invoked
\* exactly once for each received candidate except those whose worker has
\* just received them; once main is past wg.Wait every enqueued candidate
\* was received exactly once and probed exactly once.
C15_ProcessedOnce ==
    /\ taken (+) BagOfSeq(tasks) = BagOfSeq(enqueued)
    /\ lookups (+) DomainsAt("lookup") = taken
    /\ PastBarrier =>
        /\ taken = BagOfSeq(enqueued)
        /\ lookups = BagOfSeq(enqueued)

\* C15 witness: two different candidates were enqueued, two workers hold
\* one each, and scanDomain was invoked for one of them only
C15_Witness ==
    /\ Len(enqueued) = 2
    /\ enqueued[1] # enqueued[2]
    /\ taken = BagOfSeq(enqueued)
    /\ BagCardinality(lookups) = 1
    /\ \E v, w \in Workers :
        /\ v.pc = "lookup" /\ v.domain = enqueued[2]
        /\ w.pc = "dial" /\ w.domain = enqueued[1]

(***************************************************************************)
(* C16: bounded parallelism.                                               *)
(***************************************************************************)
\* the candidates being probed: received by a worker whose scanDomain call
\* has not returned yet
InFlight ==
    BagCardinality(DomainsAt("lookup")) + BagCardinality(DomainsAt("dial"))
        + BagCardinality(DomainsAt("state"))

\* some worker waits in "range tasks" while a candidate is queued
IdleWorkerAndQueuedCandidate ==
    /\ Running
    /\ Len(tasks) > 0
    /\ \E w \in Workers : w.pc = "range"

Resolved(d) ==
    /\ d \in DOMAIN net
    /\ ~net[d].lookupErr
    /\ Len(net[d].ips) >= 1

\* C17: net.LookupHost was called at most once per enqueued candidate and
\* tls.DialWithDialer at most once per call of LookupHost; a domain was
\* dialled only if its resolution gave an address, never after a failed
\* resolution; and once main is past wg.Wait every candidate was resolved
\* once and every resolved candidate dialled once, whether or not the
\* resolution or the handshake failed.
C17_SingleAttempt ==
    /\ \A d \in BagToSet(lookups) :
            CopiesIn(d, lookups) <= Count(enqueued, d)
    /\ \A d \in BagToSet(dials) :
        /\ CopiesIn(d, dials) <= CopiesIn(d, lookups)
        /\ Resolved(d)
    /\ \A d \in DOMAIN net : ~Resolved(d) => CopiesIn(d, dials) = 0
    /\ PastBarrier =>
        \A d \in SeqRange(enqueued) :
            /\ CopiesIn(d, lookups) = Count(enqueued, d)
            /\ CopiesIn(d, dials) = IF Resolved(d) THEN Count(enqueued, d)
                                    ELSE 0

\* C17 witness: all workers have returned; one candidate failed to resolve
\* and was never dialled, another resolved, was dialled once and the
\* handshake failed
C17_Witness ==
    /\ PastBarrier
    /\ Len(enqueued) = 2
    /\ ~Resolved(enqueued[1])
    /\ Resolved(enqueued[2])
    /\ net[enqueued[2]].dialErr
    /\ lookups = BagOfSeq(enqueued)
    /\ dials = SetToBag({enqueued[2]})

(***************************************************************************)
(* C18: the connection does not outlive the probe.                         *)
(***************************************************************************)
\* the handshake with domain d succeeds
Connects(d) == Resolved(d) /\ ~net[d].dialErr

\* how many of the dials recorded so far returned a connection
SuccessfulDials ==
    BagCardinality([d \in {e \in BagToSet(dials) : Connects(e)} |->
                        CopiesIn(d, dials)])

\* C18: the open connections are those opened and not yet closed; each is
\* held by a worker that is inside scanDomain between the dial and the
\* return, so none belongs to a probe that has returned on any path and
\* there are at most as many as probes in flight; every successful dial
\* opened one connection and no connection is closed twice; once all
\* workers have returned every connection opened was closed.
C18_NoConnectionLeak ==
    /\ conns = nOpened - nClosed
    /\ nClosed <= nOpened
    /\ nOpened = SuccessfulDials
    /\ conns = BagCardinality(DomainsAt("state"))
    /\ conns <= InFlight
    /\ PastBarrier => (conns = 0 /\ nClosed = nOpened)

\* C18 witness: all workers have returned after one probe ended NO CERT
\* and one OK; both connections were opened and closed
C18_Witness ==
    /\ PastBarrier
    /\ Len(enqueued) = 2
    /\ Connects(enqueued[1]) /\ Len(net[enqueued[1]].certs) = 0
    /\ Connects(enqueued[2]) /\ Len(net[enqueued[2]].certs) = 1
    /\ nOpened = 2
    /\ nClosed = 2
    /\ conns = 0

(***************************************************************************)
(* C19: no send blocks.                                                    *)
(***************************************************************************)
\* main is at "tasks <- domain"
MainAtSend ==
    /\ pc = "enum"
    /\ idx <= Len(tlds)
    /\ ~StartsWithXn(tlds[idx])

\* C19: once created, both channels have capacity len(tlds); at most
\* len(tlds) candidates are enqueued; neither buffer holds more than its
\* capacity; and whenever main is at its send on tasks, or a worker at its
\* send on results, the buffer has room, so the send does not block, while
\* the aggregator has not read anything yet.  With len(tlds) = 0 or every
\* TLD filtered out no send is attempted.
C19_NoSendBlocks ==
    /\ pc \notin {"args", "load", "make"} \/ tasksCap > 0 =>
            (tasksCap = Len(tlds) /\ resultsCap = Len(tlds))
    /\ Len(enqueued) <= Len(tlds)
    /\ Len(tasks) <= tasksCap
    /\ Len(results) <= resultsCap
    /\ MainAtSend => Len(tasks) < tasksCap
    /\ \A w \in Workers : w.pc = "send" => Len(results) < resultsCap
    /\ BagCardinality(taken) + Len(tasks) <= tasksCap
    /\ tasksCap = 0 => (~MainAtSend /\ BagCardinality(taken) = 0)

\* C19 witness: main still waits in wg.Wait, the aggregator has read
\* nothing, and the results buffer is full with one result per TLD
C19_Witness ==
    /\ pc = "wait"
    /\ Len(tlds) = 2
    /\ Len(results) = resultsCap
    /\ resultsCap = 2

(***************************************************************************)
(* C20: close discipline.                                                  *)
(***************************************************************************)
\* main executes close(tasks), close(results)
AtCloseTasks == pc = "enum" /\ pc' = "wait"
AtCloseResults == pc = "close_results" /\ pc' = "export"

\* no goroutine is at, or will come to, a send on a closed channel
NoSendOnClosed ==
    /\ pc # "panic"
    /\ exitCode # 2
    /\ tasksClosed => ~MainAtSend
    /\ resultsClosed =>
            \A w \in Workers : w.pc \notin {"lookup", "dial", "state", "send"}

\* tasks is closed only with the whole list enqueued, results only with
\* tasks closed and every worker returned
ClosedInOrder ==
    /\ tasksClosed =>
        /\ idx > Len(tlds)
        /\ enqueued = Candidates(baseDomain, tlds)
    /\ resultsClosed =>
        /\ tasksClosed
        /\ BagCardinality(wk) = maxWorkers
        /\ \A w \in Workers : w.pc = "done"
        /\ wg = 0

\* C20: each channel changes from open to closed in one step only, the
\* close statement of main, which finds it open, and never changes back;
\* tasks is closed only after the last candidate was enqueued, results
\* only after all workers exited; no send meets a closed channel and the
\* run never panics.
C20_CloseDiscipline ==
    /\ [](NoSendOnClosed /\ ClosedInOrder)
    /\ [][/\ AtCloseTasks => (~tasksClosed /\ tasksClosed')
          /\ tasksClosed' # tasksClosed => AtCloseTasks
          /\ AtCloseResults => (~resultsClosed /\ resultsClosed')
          /\ resultsClosed' # resultsClosed => AtCloseResults]_vars

\* C20 witness: both channels are closed, two candidates were enqueued and
\* their results wait in the closed results channel
C20_Witness ==
    /\ tasksClosed
    /\ resultsClosed
    /\ pc = "export"
    /\ Len(enqueued) = 2
    /\ Len(results) = 2

=============================================================================
